---- MODULE Spec2Model ----
(***************************************************************************)
(* Incident Reporting System (src/main.c): the in-memory incident array,   *)
(* the '|'-delimited store incidents.txt, id assignment, the input         *)
(* validators and the case-insensitive substring filters.                  *)
(*                                                                         *)
(* A C string is a sequence of one-character strings; NL is '\n'.          *)
(***************************************************************************)
EXTENDS Integers, Sequences, FiniteSets, TLC

VARIABLES
    incidents,      \* struct Incident incidents[MAX_INCIDENTS], the used prefix
    incidentCount,  \* int incidentCount
    file,           \* incidents.txt: the sequence of its lines, NL stripped
    running,        \* FALSE once undefined behaviour has aborted the process
    op,             \* what the last handler did, with its inputs and outputs
    assigned,       \* history: every <<id, incident>> addIncident has built
    nAdds           \* history: how many addIncident calls have been made

vars == <<incidents, incidentCount, file, running, op, assigned, nAdds>>

----------------------------------------------------------------------------
(* Program constants *)

MAX_INCIDENTS == 100
MAX_STRING_LENGTH == 100
MAX_AREA_LENGTH == 50
MAX_TYPE_LENGTH == 50
MAX_TIME_LENGTH == 20
LINE_SIZE == MAX_STRING_LENGTH * 3      \* char line[MAX_STRING_LENGTH * 3]
INT_MAX == 2147483646 + 1                \* the greatest int
INT_MIN == (0 - INT_MAX) - 1             \* the least int

NL == "\n"

----------------------------------------------------------------------------
(* C library pieces the program uses *)

Digits == <<"0", "1", "2", "3", "4", "5", "6", "7", "8", "9">>

IsDigit(c) == \E i \in 1..10 : Digits[i] = c

DigitVal(c) == (CHOOSE i \in 1..10 : Digits[i] = c) - 1

\* isspace() over the characters the model uses
IsSpace(c) == c \in {" ", NL, "\t"}

\* tolower() over the characters the model uses
tolower(c) ==
    CASE c = "A" -> "a"
      [] c = "B" -> "b"
      [] c = "C" -> "c"
      [] OTHER -> c

Drop(s, n) == SubSeq(s, n + 1, Len(s))

Take(s, n) == SubSeq(s, 1, IF n < Len(s) THEN n ELSE Len(s))

\* n copies of the character c
Fill(c, n) == [i \in 1..n |-> c]

\* printf("%d"): the decimal digits of n, with a leading '-' when negative.
\* NegToStr writes the digits of n <= 0, so that INT_MIN needs no negation.
RECURSIVE NegToStr(_)
NegToStr(n) ==
    LET d == (10 - (n % 10)) % 10
        q == (n + d) \div 10
    IN  IF q = 0 THEN <<Digits[d + 1]>> ELSE NegToStr(q) \o <<Digits[d + 1]>>

IntToStr(n) == IF n < 0 THEN <<"-">> \o NegToStr(n) ELSE NegToStr(0 - n)

\* the rest of s after its leading white space
RECURSIVE SkipSpaces(_)
SkipSpaces(s) ==
    IF s # <<>> /\ IsSpace(s[1]) THEN SkipSpaces(Drop(s, 1)) ELSE s

\* the least magnitude whose tenfold, plus the digit d, leaves the int range
NegLimit(d) == IF d = 0 THEN INT_MAX \div 10 ELSE (INT_MAX - (d - 1)) \div 10

\* the longest prefix of s made of digits: n its length, neg minus its value
\* (kept negative, as strtol does, so that INT_MIN is in range), ovf whether
\* the value left the int range
RECURSIVE DigitRun(_, _, _, _)
DigitRun(s, neg, n, ovf) ==
    IF s # <<>> /\ IsDigit(s[1])
    THEN LET d == DigitVal(s[1])
         IN  IF ovf \/ neg < 0 - NegLimit(d)
             THEN DigitRun(Drop(s, 1), neg, n + 1, TRUE)
             ELSE DigitRun(Drop(s, 1), 10 * neg - d, n + 1, FALSE)
    ELSE [neg |-> neg, n |-> n, ovf |-> ovf, rest |-> s]

\* %d once the white space is skipped and the sign taken: r is the digit run
\* that follows, s the whole input
ScanDigits(r, minus, s) ==
    IF r.n = 0
    THEN [ok |-> FALSE, val |-> 0, ovf |-> FALSE, rest |-> s]
    ELSE IF r.ovf \/ (~minus /\ r.neg = INT_MIN)
    THEN [ok |-> TRUE, val |-> 0, ovf |-> TRUE, rest |-> r.rest]
    ELSE [ok |-> TRUE, val |-> IF minus THEN r.neg ELSE 0 - r.neg, ovf |-> FALSE,
          rest |-> r.rest]

\* %d once the white space is skipped: t is what follows it
ScanSigned(t, s) ==
    IF t # <<>> /\ t[1] \in {"+", "-"}
    THEN ScanDigits(DigitRun(Drop(t, 1), 0, 0, FALSE), t[1] = "-", s)
    ELSE ScanDigits(DigitRun(t, 0, 0, FALSE), FALSE, s)

\* scanf's %d: skips white space, takes an optional sign and at least one
\* digit.  [ok, val, ovf, rest]; ovf: the value is no int, which the C
\* standard leaves undefined.
ScanInt(s) == ScanSigned(SkipSpaces(s), s)

\* the length of the longest prefix of s holding no character of stop
SpanNot(s, stop) ==
    LET at == {i \in 1..Len(s) : s[i] \in stop}
    IN  IF at = {} THEN Len(s)
        ELSE (CHOOSE i \in at : \A j \in at : i <= j) - 1

\* scanf's %[^...]: at least one character, up to the first one of stop
ScanSet(s, stop) ==
    LET n == SpanNot(s, stop)
    IN  [ok |-> n > 0, val |-> Take(s, n), rest |-> Drop(s, n)]

\* strstr(hay, needle) != NULL
strstr(hay, needle) ==
    \E i \in 0..(Len(hay) - Len(needle)) :
        SubSeq(hay, i + 1, i + Len(needle)) = needle

\* fgets on a stream whose first NL, if any, comes after n characters
FgetsTake(stream, size, n) ==
    IF n < Len(stream) /\ n + 1 <= size - 1
    THEN [buf |-> Take(stream, n + 1), rest |-> Drop(stream, n + 1)]
    ELSE IF n < size - 1
    THEN [buf |-> Take(stream, n), rest |-> Drop(stream, n)]
    ELSE [buf |-> Take(stream, size - 1), rest |-> Drop(stream, size - 1)]

\* fgets(buf, size, stdin) on the pending characters: at most size - 1 of
\* them, ending after the first NL
fgets(stream, size) == FgetsTake(stream, size, SpanNot(stream, {NL}))

----------------------------------------------------------------------------
(* isValidTimeFormat, main.c:460-475 *)

\* the range test, main.c:470, once sscanf has returned: h and m are the two
\* %d conversions.  sscanf returns 2 exactly when %d:%d matched and %c found
\* no character.  A number that is no int is undefined for sscanf; no time of
\* the model is that long, and such a string is taken as rejected.
TimeInRange(h, m) ==
    /\ m.ok /\ m.rest = <<>>
    /\ ~h.ovf /\ ~m.ovf
    /\ ~(h.val < 0 \/ h.val > 23 \/ m.val < 0 \/ m.val > 59)

\* sscanf(time, "%d:%d%c", ...) after the first %d
TimeAfterHour(h) ==
    /\ h.ok /\ h.rest # <<>> /\ h.rest[1] = ":"
    /\ TimeInRange(h, ScanInt(Drop(h.rest, 1)))

isValidTimeFormat(time) == TimeAfterHour(ScanInt(time))

----------------------------------------------------------------------------
(* validateStringInput, main.c:392-423, and validateTimeInput, 426-457.    *)
(* stream is what the user types from the first prompt on, every line      *)
(* ended by NL.  The loop runs until a chunk is valid; with the stream     *)
(* used up it waits for more input (done = FALSE).  whole tells whether    *)
(* the returned chunk is a whole typed line: it starts where a line starts *)
(* and ends with that line's NL.                                           *)

MsgEmpty == "Input cannot be empty. Please try again."
MsgTooLong == "Input too long. Please try again."
MsgTimeEmpty == "Time cannot be empty. Please try again."
MsgTimeFormat == "Invalid time format. Please use HH:MM (24-hour clock)."

HasNL(buf) == buf # <<>> /\ buf[Len(buf)] = NL

StripNL(buf) == IF HasNL(buf) THEN Take(buf, Len(buf) - 1) ELSE buf

Waiting(msgs) ==
    [done |-> FALSE, input |-> <<>>, rest |-> <<>>, msgs |-> msgs, whole |-> FALSE]

Valid(input, g, msgs, atLineStart) ==
    [done |-> TRUE, input |-> input, rest |-> g.rest, msgs |-> msgs,
     whole |-> atLineStart /\ HasNL(g.buf)]

RECURSIVE StringLoop(_, _, _, _)
\* one pass of the while loop, from the result g of its fgets on
StringPass(g, input, maxLength, msgs, atLineStart) ==
    IF Len(input) = 0
    THEN StringLoop(g.rest, maxLength, Append(msgs, MsgEmpty), HasNL(g.buf))
    ELSE IF Len(input) >= maxLength - 1
    THEN StringLoop(g.rest, maxLength, Append(msgs, MsgTooLong), HasNL(g.buf))
    ELSE Valid(input, g, msgs, atLineStart)

StringFgets(g, maxLength, msgs, atLineStart) ==
    StringPass(g, StripNL(g.buf), maxLength, msgs, atLineStart)

StringLoop(stream, maxLength, msgs, atLineStart) ==
    IF stream = <<>> THEN Waiting(msgs)
    ELSE StringFgets(fgets(stream, maxLength), maxLength, msgs, atLineStart)

validateStringInput(stream, maxLength) == StringLoop(stream, maxLength, <<>>, TRUE)

RECURSIVE TimeLoop(_, _, _, _)
TimePass(g, input, maxLength, msgs, atLineStart) ==
    IF Len(input) = 0
    THEN TimeLoop(g.rest, maxLength, Append(msgs, MsgTimeEmpty), HasNL(g.buf))
    ELSE IF ~isValidTimeFormat(input)
    THEN TimeLoop(g.rest, maxLength, Append(msgs, MsgTimeFormat), HasNL(g.buf))
    ELSE Valid(input, g, msgs, atLineStart)

TimeFgets(g, maxLength, msgs, atLineStart) ==
    TimePass(g, StripNL(g.buf), maxLength, msgs, atLineStart)

TimeLoop(stream, maxLength, msgs, atLineStart) ==
    IF stream = <<>> THEN Waiting(msgs)
    ELSE TimeFgets(fgets(stream, maxLength), maxLength, msgs, atLineStart)

validateTimeInput(stream, maxLength) == TimeLoop(stream, maxLength, <<>>, TRUE)

----------------------------------------------------------------------------
(* The store: writeIncidentToFile, main.c:369-378, and                     *)
(* readIncidentsFromFile, main.c:337-366                                   *)

Incident(id, area, type, time) ==
    [id |-> id, area |-> area, type |-> type, time |-> time]

\* FormatLine with the area and the type written in the wrong order
FormatLineTypeFirst(inc) ==
    IntToStr(inc.id) \o <<"|">> \o inc.type \o <<"|">> \o inc.area \o <<"|">> \o inc.time

\* fprintf(file, "%d|%s|%s|%s\n", ...): the line written, NL left out
FormatLine(inc) ==
    IntToStr(inc.id) \o <<"|">> \o inc.area \o <<"|">> \o inc.type \o <<"|">> \o inc.time

\* what sscanf leaves: n its return value, inc the fields stored, ub whether
\* a %[ wrote past its array (the directives carry no width) or the id was
\* no int
Scanned(n, d, a, t, m) ==
    [n   |-> n,
     inc |-> Incident(d.val, a.val, t.val, m.val),
     ub  |-> \/ d.ovf
             \/ Len(a.val) >= MAX_AREA_LENGTH
             \/ Len(t.val) >= MAX_TYPE_LENGTH
             \/ Len(m.val) >= MAX_TIME_LENGTH]

NoField == [ok |-> FALSE, val |-> <<>>, rest |-> <<>>]

ScanTime(d, a, t, m) == Scanned(IF m.ok THEN 4 ELSE 3, d, a, t, m)

ScanType(d, a, t) ==
    IF t.ok /\ t.rest # <<>> /\ t.rest[1] = "|"
    THEN ScanTime(d, a, t, ScanSet(Drop(t.rest, 1), {NL}))
    ELSE Scanned(IF t.ok THEN 3 ELSE 2, d, a, t, NoField)

ScanArea(d, a) ==
    IF a.ok /\ a.rest # <<>> /\ a.rest[1] = "|"
    THEN ScanType(d, a, ScanSet(Drop(a.rest, 1), {"|"}))
    ELSE Scanned(IF a.ok THEN 2 ELSE 1, d, a, NoField, NoField)

ScanId(d) ==
    IF d.ok /\ d.rest # <<>> /\ d.rest[1] = "|"
    THEN ScanArea(d, ScanSet(Drop(d.rest, 1), {"|"}))
    ELSE Scanned(IF d.ok THEN 1 ELSE 0, d, NoField, NoField, NoField)

\* sscanf(line, "%d|%[^|]|%[^|]|%[^\n]", &id, area, type, time), directive by
\* directive
ScanLine(line) == ScanId(ScanInt(line))

\* the chunks successive fgets(line, sizeof(line), file) calls cut one line
\* of the file into: LINE_SIZE - 1 characters each, the last one the rest
Chunks(line) ==
    LET w == LINE_SIZE - 1
        n == (Len(line) \div w) + 1
    IN  [k \in 1..n |-> SubSeq(line, (k - 1) * w + 1,
                                 IF k * w < Len(line) THEN k * w ELSE Len(line))]

\* two stretches of the loop, one after the other
Joined(left, right) ==
    [incidents |-> left.incidents \o right.incidents, ub |-> left.ub \/ right.ub]

Stored(r) == [incidents |-> IF r.n = 4 THEN <<r.inc>> ELSE <<>>, ub |-> r.ub]

NothingRead == [incidents |-> <<>>, ub |-> FALSE]

\* the while loop of readIncidentsFromFile over what fgets returns for lines
\* lo..hi, with room for cap more records (count < MAX_INCIDENTS is cap > 0).
\* ch holds the chunks of line lo still to read when lo = hi.  The range is
\* halved so that the evaluation stays shallow; the lines are read in order.
Mid(lo, hi) == (lo + hi) \div 2

RECURSIVE ReadLoop(_, _, _, _, _)
ReadRest(lines, lo, hi, cap, ch, left) ==
    Joined(left, ReadLoop(lines, lo, hi, cap - Len(left.incidents), ch))

ReadLoop(lines, lo, hi, cap, ch) ==
    IF cap <= 0 \/ lo > hi THEN NothingRead
    ELSE IF lo = hi
    THEN IF ch = <<>> THEN NothingRead
         ELSE ReadRest(lines, lo, hi, cap, Tail(ch), Stored(ScanLine(Head(ch))))
    ELSE ReadRest(lines, Mid(lo, hi) + 1, hi, cap, Chunks(lines[Mid(lo, hi) + 1]),
                  ReadLoop(lines, lo, Mid(lo, hi), cap, Chunks(lines[lo])))

\* what fopen(DATA_FILE, "r") sees: no file and an empty file both load nothing
readIncidentsFromFile(f) ==
    IF f = <<>> THEN NothingRead
    ELSE ReadLoop(f, 1, Len(f), MAX_INCIDENTS, Chunks(f[1]))

\* what a %[ that wrote past area[] leaves in the struct when the process
\* survives: area runs on into type, whose bytes follow it in memory
Spill(inc) ==
    IF Len(inc.area) >= MAX_AREA_LENGTH
    THEN [inc EXCEPT !.area = Take(inc.area, MAX_AREA_LENGTH) \o inc.type]
    ELSE inc

\* the outcomes of a load that read r: with no undefined behaviour the parsed
\* records; otherwise the process aborts, or goes on with the overrun bytes
\* in place
Outcomes(r) ==
    IF ~r.ub
    THEN {[running |-> TRUE, incidents |-> r.incidents]}
    ELSE {[running |-> FALSE, incidents |-> <<>>],
          [running |-> TRUE,
           incidents |-> [i \in 1..Len(r.incidents) |-> Spill(r.incidents[i])]]}

\* the outcomes of the load at process start, main.c:67
LoadOutcomes(f) == Outcomes(readIncidentsFromFile(f))

----------------------------------------------------------------------------
(* getNextIncidentId, main.c:381-389 *)

\* maxId when the loop ends: the greatest of 0 and the ids
MaxId(incs) ==
    LET ids == {0} \cup {incs[i].id : i \in 1..Len(incs)}
    IN  CHOOSE m \in ids : \A x \in ids : x <= m

\* getNextIncidentId counting the records instead of scanning their ids
NextIdFromCount(incs) == {[trap |-> FALSE, id |-> Len(incs) + 1]}

\* the values "return maxId + 1" can give; at maxId = INT_MAX the addition
\* overflows, which is undefined: it wraps to INT_MIN, or the process traps
\* ("trap") when built with -ftrapv or a sanitizer
getNextIncidentId(incs) ==
    IF MaxId(incs) = INT_MAX
    THEN {[trap |-> FALSE, id |-> INT_MIN], [trap |-> TRUE, id |-> 0]}
    ELSE {[trap |-> FALSE, id |-> MaxId(incs) + 1]}

----------------------------------------------------------------------------
(* strContains, main.c:254-272 *)

\* the lowercase copy: at most MAX_STRING_LENGTH - 1 characters of str
LowerCopy(str) ==
    LET n == IF Len(str) < MAX_STRING_LENGTH - 1 THEN Len(str) ELSE MAX_STRING_LENGTH - 1
    IN  [i \in 1..n |-> tolower(str[i])]

\* strContains without the lowercase copies
strContainsExact(str, substr) == strstr(str, substr)

strContains(str, substr) == strstr(LowerCopy(str), LowerCopy(substr))

----------------------------------------------------------------------------
(* Bounds and the inputs the model draws from *)

MaxAdds == 2        \* successful addIncident calls in one behaviour
MaxQueryAdds == 1   \* the same, in the behaviours that also filter
MaxLineLen == 60    \* longest line typed at a validateStringInput prompt
MaxTimeLen == 5     \* longest string given to isValidTimeFormat

Line(s) == s \o <<NL>>

T0815 == <<"0", "8", ":", "1", "5">>

\* what the user types at the area prompt, re-prompts included
AreaStreams ==
    { Line(<<"a">>),
      Line(<<>>) \o Line(<<"A", "b">>),
      Line(<<"a", "|">>) }

\* what the user types at the type prompt and then at the time prompt: a
\* plain answer to each, or a type line longer than type[] followed by a time
\* that is refused and another one
TypeTimeStreams ==
    { <<Line(<<"b">>), Line(T0815)>>,
      <<Line(Fill("c", MAX_TYPE_LENGTH + 1)),
        Line(<<"2", "5", ":", "6", "1">>) \o Line(<<"9", ":", "5">>)>> }

NeedleStreams ==
    { Line(<<"A">>),
      Line(<<"a", "B">>),
      Line(<<>>) \o Line(<<"c">>) }

\* n lines as the program itself writes them, ids 1..n
StoredLines(n) == [i \in 1..n |-> FormatLine(Incident(i, <<"a">>, <<"b">>, T0815))]

\* the contents incidents.txt can have when the process starts
InitFiles ==
    { <<>>,
      StoredLines(1),
      \* a well-formed line and one with a field missing
      << <<"1", "|", "A", "b", "|", "b", "|", "0", "8", ":", "1", "5">>,
         <<"2", "|", "a", "|", "b">> >>,
      \* five fields
      << <<"1", "|", "a", "|", "b", "|", "c", "|", "d">> >>,
      \* an empty field, an id that is no number, an id after a blank
      << <<"2", "|", "|", "b", "|", "c">>,
         <<"x", "|", "a", "|", "b", "|", "c">>,
         <<" ", "7", "|", "A", " ", "b", "|", "C", "|", "d">> >>,
      \* ids that are not positive, and the greatest int
      << <<"-", "5", "|", "a", "|", "C", "|", "0", ":", "0">> >>,
      << FormatLine(Incident(INT_MAX, <<"a">>, <<"b">>, T0815)) >>,
      \* one short of the capacity bound, at it, beyond it
      StoredLines(MAX_INCIDENTS - 1),
      StoredLines(MAX_INCIDENTS),
      StoredLines(MAX_INCIDENTS + 1),
      \* an area as long as area[], and a line longer than line[]
      << FormatLine(Incident(1, Fill("a", MAX_AREA_LENGTH), <<"b">>, T0815)) >>,
      << Fill("x", LINE_SIZE - 1) \o FormatLine(Incident(7, <<"a">>, <<"b">>, T0815)) >> }

----------------------------------------------------------------------------
(* The handlers *)

MsgFull == "Error: Maximum number of incidents reached."
MsgWrite == "Error: Could not open file for writing."
MsgSuccess == "Incident reported successfully"
MsgNone == "No incidents have been reported yet."
MsgNotFound == "No incidents found."

\* the capacity test letting one record too many in
IsFullOffByOne(count) == count > MAX_INCIDENTS

\* the test at main.c:206
IsFull(count) == count >= MAX_INCIDENTS

\* writeIncidentToFile returning without a word when fopen fails
writeIncidentSilently(f, inc, fopenOk) ==
    [file |-> IF fopenOk THEN Append(f, FormatLine(inc)) ELSE f, msgs |-> <<>>]

\* writeIncidentToFile(&newIncident): the file and the messages afterwards;
\* fopenOk tells whether fopen(DATA_FILE, "a") gave a stream
writeIncidentToFile(f, inc, fopenOk) ==
    IF fopenOk
    THEN [file |-> Append(f, FormatLine(inc)), msgs |-> <<>>]
    ELSE [file |-> f, msgs |-> <<MsgWrite>>]

\* main.c:225-232: the insertion, the write and the closing message
Insert(newIncident, w, fopenOk, a, t, m) ==
    /\ incidents' = Append(incidents, newIncident)
    /\ incidentCount' = incidentCount + 1
    /\ file' = w.file
    /\ op' = [name |-> "addIncident", result |-> "ok",
              id |-> newIncident.id, inc |-> newIncident, wrote |-> fopenOk,
              whole |-> a.whole /\ t.whole,
              msgs |-> a.msgs \o t.msgs \o m.msgs \o w.msgs \o <<MsgSuccess>>]
    /\ assigned' = Append(assigned, newIncident.id)
    /\ nAdds' = nAdds + 1
    /\ UNCHANGED running

InsertNew(newIncident, fopenOk, a, t, m) ==
    Insert(newIncident, writeIncidentToFile(file, newIncident, fopenOk), fopenOk, a, t, m)

\* main.c:211-232, with a, t and m what the three prompts returned
Prompted(a, t, m, fopenOk) ==
    /\ a.done /\ a.rest = <<>>
    /\ t.done /\ t.rest = <<>>
    /\ m.done /\ m.rest = <<>>
    /\ \E next \in getNextIncidentId(incidents) :
          IF next.trap
          THEN /\ running' = FALSE
               /\ op' = [name |-> "addIncident", result |-> "trap",
                         msgs |-> a.msgs \o t.msgs \o m.msgs]
               /\ UNCHANGED <<incidents, incidentCount, file, assigned, nAdds>>
          ELSE InsertNew(Incident(next.id, a.input, t.input, m.input), fopenOk, a, t, m)

\* addIncident, main.c:205-233: the capacity test, the three prompts, the id,
\* the insertion and the write
addIncident(areaIn, typeIn, timeIn, fopenOk) ==
    /\ running
    /\ IF IsFull(incidentCount)
       THEN /\ op' = [name |-> "addIncident", result |-> "full", msgs |-> <<MsgFull>>]
            /\ UNCHANGED <<incidents, incidentCount, file, running, assigned, nAdds>>
       ELSE Prompted(validateStringInput(areaIn, MAX_AREA_LENGTH),
                  validateStringInput(typeIn, MAX_TYPE_LENGTH),
                  validateTimeInput(timeIn, MAX_TIME_LENGTH),
                  fopenOk)

\* the rows the for loop prints: the records of incs, in order, whose field
\* (area or type) contains the needle
Matches(incs, field, needle) ==
    SelectSeq(incs, LAMBDA r : strContains(r[field], needle))

\* main.c:284-302: the listing for the needle v the prompt returned
Listing(field, needleIn, v, found) ==
    /\ v.done /\ v.rest = <<>>
    /\ op' = [name |-> "view", field |-> field, result |-> "listed",
              typed |-> needleIn, needle |-> v.input, listed |-> found,
              msgs |-> v.msgs \o (IF found = <<>> THEN <<MsgNotFound>> ELSE <<>>)]

ListingFor(field, needleIn, v) ==
    Listing(field, needleIn, v, Matches(incidents, field, v.input))

\* viewIncidentsByArea, main.c:275-303, and viewIncidentsByType, 306-334
viewIncidentsBy(field, needleIn) ==
    /\ running
    /\ IF incidentCount = 0
       THEN op' = [name |-> "view", field |-> field, result |-> "none",
                   msgs |-> <<MsgNone>>]
       ELSE ListingFor(field, needleIn, validateStringInput(needleIn, MAX_AREA_LENGTH))
    /\ UNCHANGED <<incidents, incidentCount, file, running, assigned, nAdds>>

viewIncidentsByArea(needleIn) == viewIncidentsBy("area", needleIn)

viewIncidentsByType(needleIn) == viewIncidentsBy("type", needleIn)

\* the process ends (menu choice 3, or it was aborted) and is started again:
\* main.c:67 loads the file into the zeroed globals
Restart ==
    /\ \E o \in LoadOutcomes(file) :
          /\ incidents' = o.incidents
          /\ incidentCount' = Len(o.incidents)
          /\ running' = o.running
    /\ op' = [name |-> "load"]
    /\ UNCHANGED <<file, assigned, nAdds>>

----------------------------------------------------------------------------
(* The program: started on some file, then handlers and restarts *)

Init ==
    /\ file \in InitFiles
    /\ \E o \in LoadOutcomes(file) :
          /\ incidents = o.incidents
          /\ incidentCount = Len(o.incidents)
          /\ running = o.running
    /\ op = [name |-> "load"]
    /\ assigned = <<>>
    /\ nAdds = 0

Report ==
    /\ nAdds < MaxAdds
    /\ \E areaIn \in AreaStreams, typeTimeIn \in TypeTimeStreams, fopenOk \in BOOLEAN :
          addIncident(areaIn, typeTimeIn[1], typeTimeIn[2], fopenOk)

FilterArea == \E needleIn \in NeedleStreams : viewIncidentsByArea(needleIn)

FilterType == \E needleIn \in NeedleStreams : viewIncidentsByType(needleIn)

Next == Report \/ Restart

Spec == Init /\ [][Next]_vars

\* the same program on a fresh deployment: no file yet
FreshInit ==
    /\ file = <<>>
    /\ incidents = <<>>
    /\ incidentCount = 0
    /\ running = TRUE
    /\ op = [name |-> "load"]
    /\ assigned = <<>>
    /\ nAdds = 0

SpecFresh == FreshInit /\ [][Next]_vars

\* the query handlers over the loaded collection and what was added to it
QueryReport == nAdds < MaxQueryAdds /\ Report

QueryNext == FilterArea \/ FilterType \/ QueryReport

SpecQuery == Init /\ [][QueryNext]_vars

\* one session from an empty store in which every write succeeds, run up to
\* the capacity bound and past it
CapNext == addIncident(Line(<<"a">>), Line(<<"b">>), Line(T0815), TRUE)

SpecCap == FreshInit /\ [][CapNext]_vars

----------------------------------------------------------------------------
(* The validators on their own: op holds the input, then the result *)

Idle ==
    /\ file = <<>>
    /\ incidents = <<>>
    /\ incidentCount = 0
    /\ running = TRUE
    /\ assigned = <<>>
    /\ nAdds = 0

TimeChars == {"0", "2", "6", "9", ":", " ", "x"}

TimeExamples ==
    { <<"1", "4", ":", "3", "0">>, <<"2", "4", ":", "0", "0">>,
      <<"2", "5", ":", "6", "1">>, <<"a", "b", "c">>,
      <<"1", "4", ":", "3", "0", "x">>, <<"9", ":", "5">>,
      <<"2", "3", ":", "5", "9">>, <<"+", "1", ":", "-", "0">> }

TimeStrings ==
    TimeExamples \cup UNION {[1..n -> TimeChars] : n \in 0..MaxTimeLen}

TimeInit == Idle /\ \E t \in TimeStrings : op = [name |-> "typed", time |-> t]

CheckTime ==
    /\ op.name = "typed"
    /\ op' = [name |-> "isValidTimeFormat", time |-> op.time,
              valid |-> isValidTimeFormat(op.time)]
    /\ UNCHANGED <<incidents, incidentCount, file, running, assigned, nAdds>>

SpecTime == TimeInit /\ [][CheckTime]_vars

\* a first line of 0..MaxLineLen characters, alone or followed by the line
\* the user types when prompted again
InputStreams ==
    UNION { { Line(Fill(c, n)), Line(Fill(c, n)) \o Line(<<"z">>) } :
            c \in {"a", "|"}, n \in 0..MaxLineLen }

InputInit == Idle /\ \E st \in InputStreams : op = [name |-> "typed", stream |-> st]

\* validateStringInput(input, MAX_AREA_LENGTH, prompt) on exactly what the
\* user typed until it returned
CheckString ==
    /\ op.name = "typed"
    /\ LET r == validateStringInput(op.stream, MAX_AREA_LENGTH)
       IN  /\ r.done /\ r.rest = <<>>
           /\ op' = [name |-> "validateStringInput", stream |-> op.stream, res |-> r]
    /\ UNCHANGED <<incidents, incidentCount, file, running, assigned, nAdds>>

SpecInput == InputInit /\ [][CheckString]_vars

----------------------------------------------------------------------------
(* Properties *)

AddedOk(o) == o.name = "addIncident" /\ o.result = "ok"

IdsOf(incs) == {incs[i].id : i \in 1..Len(incs)}

NoPipe(str) == \A i \in 1..Len(str) : str[i] # "|"

\* n, lowercased, occurs in h, lowercased
ContainsLower(n, h) ==
    \E off \in 0..(Len(h) - Len(n)) :
        \A j \in 1..Len(n) : tolower(h[off + j]) = tolower(n[j])

\* the first line of what was typed
FirstLine(stream) == Take(stream, SpanNot(stream, {NL}))

C2_FullRejectsWithoutMutation ==
    [][(incidentCount >= MAX_INCIDENTS /\ op'.name = "addIncident") =>
         /\ op'.result = "full"
         /\ incidents' = incidents
         /\ incidentCount' = incidentCount
         /\ file' = file]_vars

\* the 101st addIncident after 100 successful ones was rejected
C2_Witness ==
    /\ nAdds = MAX_INCIDENTS /\ incidentCount = MAX_INCIDENTS
    /\ Len(incidents) = MAX_INCIDENTS /\ Len(file) = MAX_INCIDENTS
    /\ op.name = "addIncident" /\ op.result = "full"

\* C3: after an addIncident that wrote its incident x, with no '|' in x's
\* area, type and time, the line written parses back to x, and every load of
\* the file that completes ends with a record equal to x in all four fields.
C3_RoundTrip ==
    (AddedOk(op) /\ op.wrote /\ NoPipe(op.inc.area) /\ NoPipe(op.inc.type)
        /\ NoPipe(op.inc.time)) =>
      /\ file # <<>>
      /\ ScanLine(file[Len(file)]).n = 4
      /\ ScanLine(file[Len(file)]).inc = op.inc
      /\ ~ScanLine(file[Len(file)]).ub
      /\ \A o \in LoadOutcomes(file) :
            o.running => /\ o.incidents # <<>>
                         /\ o.incidents[Len(o.incidents)] = op.inc

\* an incident without '|' was written after others and is loaded back
C3_Witness ==
    /\ AddedOk(op) /\ op.wrote /\ NoPipe(op.inc.area) /\ NoPipe(op.inc.type)
    /\ Len(file) >= 2
    /\ \E o \in LoadOutcomes(file) :
          o.running /\ o.incidents[Len(o.incidents)] = op.inc

\* C4, as stated: for the needle n the user enters, the empty one included,
\* the listing holds a record exactly when lowercase(n) occurs in the
\* lowercase field.
C4_EveryNeedleFilters ==
    (op.name = "view" /\ op.result = "listed") =>
      \A i \in 1..Len(incidents) :
          (\E j \in 1..Len(op.listed) : op.listed[j] = incidents[i])
            <=> ContainsLower(FirstLine(op.typed), incidents[i][op.field])

\* C4, amended: the needle the listing uses is the one validateStringInput
\* returned, never empty and at most 48 characters, and the listing holds
\* exactly the records whose lowercase field contains the lowercase needle.
C4_AcceptedNeedleFilters ==
    (op.name = "view" /\ op.result = "listed") =>
      /\ op.needle # <<>> /\ Len(op.needle) < MAX_AREA_LENGTH - 1
      /\ \A i \in 1..Len(incidents) :
            (\E j \in 1..Len(op.listed) : op.listed[j] = incidents[i])
              <=> ContainsLower(op.needle, incidents[i][op.field])
      /\ Len(op.listed) =
            Cardinality({i \in 1..Len(incidents) :
                            ContainsLower(op.needle, incidents[i][op.field])})

\* an empty line was answered by a new prompt, and the needle then entered
\* matched some records, in another case, and not others
C4_Witness ==
    /\ op.name = "view" /\ op.result = "listed"
    /\ FirstLine(op.typed) = <<>>
    /\ op.listed # <<>> /\ Len(op.listed) < Len(incidents)
    /\ \E j \in 1..Len(op.listed) : ~strstr(op.listed[j][op.field], op.needle)

\* the fields of a line: what lies between its '|' characters
Cut(line) ==
    LET P   == {i \in 1..Len(line) : line[i] = "|"}
        n   == Cardinality(P)
        pos == [k \in 0..(n + 1) |->
                   IF k = 0 THEN 0
                   ELSE IF k = n + 1 THEN Len(line) + 1
                   ELSE CHOOSE i \in P : Cardinality({j \in P : j < i}) = k - 1]
    IN  [k \in 1..(n + 1) |-> SubSeq(line, pos[k - 1] + 1, pos[k] - 1)]

\* exactly four fields, none empty, the first one a number
WellFormed(line) ==
    /\ Len(Cut(line)) = 4
    /\ \A k \in 1..4 : Cut(line)[k] # <<>>
    /\ ScanInt(Cut(line)[1]).ok /\ ScanInt(Cut(line)[1]).rest = <<>>

RecordOf(line) ==
    Incident(ScanInt(Cut(line)[1]).val, Cut(line)[2], Cut(line)[3], Cut(line)[4])

WellFormedRecords(f) ==
    LET good == SelectSeq(f, WellFormed)
    IN  [i \in 1..(IF Len(good) < MAX_INCIDENTS THEN Len(good) ELSE MAX_INCIDENTS)
            |-> RecordOf(good[i])]

\* C5: a load never aborts, and what it leaves in memory is exactly the
\* well-formed lines of the file (four non-empty fields, the first a number),
\* in file order, cut off at the capacity bound.
C5_LoadKeepsExactlyWellFormedLines ==
    op.name = "load" => (running /\ incidents = WellFormedRecords(file))

\* C6: an addIncident whose fopen fails still appends the incident, with its
\* assigned id, to the collection (count + 1), leaves the file as it was,
\* prints the warning, and leaves the process running.
C6_WriteFailureKeepsIncidentInMemory ==
    [][(AddedOk(op') /\ ~op'.wrote) =>
         /\ incidents' = Append(incidents, op'.inc)
         /\ op'.inc.id = op'.id
         /\ incidentCount' = incidentCount + 1
         /\ file' = file
         /\ \E k \in 1..Len(op'.msgs) : op'.msgs[k] = MsgWrite
         /\ running']_vars

\* two incidents are in memory, the second after a failed write, and the
\* file holds only the first
C6_Witness ==
    /\ AddedOk(op) /\ ~op.wrote /\ running
    /\ incidentCount = 2 /\ incidents[2] = op.inc
    /\ Len(file) = 1

\* C7: no id is assigned twice: the ids addIncident has assigned so far,
\* restarts in between included, are all different.
C7_NoIdAssignedTwice ==
    \A i, j \in 1..Len(assigned) : i # j => assigned[i] # assigned[j]

\* two digits, a colon, two digits, the hour at most 23, the minute at most 59
IsHHMM(str) ==
    /\ Len(str) = 5
    /\ IsDigit(str[1]) /\ IsDigit(str[2]) /\ str[3] = ":"
    /\ IsDigit(str[4]) /\ IsDigit(str[5])
    /\ 10 * DigitVal(str[1]) + DigitVal(str[2]) <= 23
    /\ 10 * DigitVal(str[4]) + DigitVal(str[5]) <= 59

\* C8: isValidTimeFormat accepts a string exactly when it has the form HH:MM
\* with 0 <= HH <= 23 and 0 <= MM <= 59 and nothing else.
C8_AcceptsExactlyHHMM ==
    op.name = "isValidTimeFormat" => (op.valid <=> IsHHMM(op.time))

\* C9: with maxLength = 50 the line typed first is accepted (returned, with no
\* complaint) exactly when it has 1 to 49 characters.
C9_AcceptsUpTo49Characters ==
    op.name = "validateStringInput" =>
      ((op.res.input = FirstLine(op.stream) /\ op.res.msgs = <<>>)
         <=> (1 <= Len(FirstLine(op.stream))
                /\ Len(FirstLine(op.stream)) <= MAX_AREA_LENGTH - 1))

\* C10: once a line was rejected as too long, what validateStringInput
\* returns is a whole line the user typed, not a piece of one.
C10_ReturnsWholeLineAfterRejection ==
    (op.name = "validateStringInput"
        /\ \E k \in 1..Len(op.res.msgs) : op.res.msgs[k] = MsgTooLong)
      => op.res.whole

====
